---- MODULE Spec2Model ----
(***************************************************************************)
(* Billing-record tiering: a primary record store (Cosmos DB container),   *)
(* a cold blob store and an archive index, with the archival run, the      *)
(* fallback lookup, the restore path and the API mutations that act on     *)
(* them.  Each handler is a sequence of store calls; a store call may      *)
(* raise.  A step operator models one store call of a handler, a run       *)
(* operator the handler from its first store call to its return.           *)
(***************************************************************************)
EXTENDS Integers, Sequences, FiniteSets, TLC

\* ---------------------------------------------------------------- bounds
MaxIds       == 3    \* record ids are 1..MaxIds
MaxCreatedAt == 1    \* created_at values are 0..MaxCreatedAt (days)
MaxOps       == 2    \* mutating operations per behaviour
MaxFails     == 2    \* store calls that raise within one archive run

\* ------------------------------------------------------ program constants
ARCHIVAL_DAYS_THRESHOLD == 90
BATCH_SIZE              == 2

Ids        == 1..MaxIds
CreatedAts == 0..MaxCreatedAt

\* The day the behaviour takes place on: created_at 0 is older than the
\* cutoff, created_at 1 is the cutoff itself, later values are newer.
Today == ARCHIVAL_DAYS_THRESHOLD + 1

\* ------------------------------------------------------------ data model
None == [none |-> TRUE]

\* A billing record as the stores hold it: the fields of models.BillingRecord
\* that the tiering logic reads (id, created_at) and `extra`: whether the
\* document carries a field the model does not declare (merged in by an
\* update).
BillingRecord == [id : Ids, created_at : CreatedAts, extra : BOOLEAN]

\* What record.get('id') is for a document without an id or with an empty one.
NoId == 0

\* A created_at that is not an ISO timestamp, such as "01/02/2020"; as a
\* string it compares below every cutoff.
Garbled == -1

\* datetime.fromisoformat(s): the timestamp, or the ValueError it raises.
fromisoformat(s) == IF s = Garbled THEN [raised |-> TRUE, value |-> 0]
                    ELSE [raised |-> FALSE, value |-> s]

\* blob_name = f"{record_id}.json"
BlobName(record_id) == <<record_id, "json">>

BlobNames == {BlobName(i) : i \in Ids}

\* Mutant: every index entry points at the blob of the first record.
ArchiveIndexFixedPath(record_id, blob_path, created_at) ==
    [id |-> record_id, blob_path |-> <<1, "json">>, original_created_at |-> created_at]

\* models.ArchiveIndex (archived_at is the wall clock at creation)
ArchiveIndex(record_id, blob_path, created_at) ==
    [id |-> record_id, blob_path |-> blob_path, original_created_at |-> created_at]

\* BillingRecord(**record).dict(): the declared fields survive, an undeclared
\* field is dropped.
BillingRecordDict(record) == [record EXCEPT !.extra = FALSE]

VARIABLES
    now,        \* datetime.utcnow(), in days
    primary,    \* CosmosDBClient.container: id -> record or None
    index,      \* CosmosDBClient.archive_index_container: id -> entry or None
    blobs,      \* BlobStorageClient.container_client: blob name -> record or None
    arch,       \* the last archive_old_records invocation
    arch2,      \* the last archive_old_records invocation of a second caller
    stats,      \* the last get_archival_stats invocation
    api,        \* the last PUT or DELETE /billing/{id} request and its response
    upd,        \* the last cosmos_client.update_billing_record invocation
    rest,       \* the last restore_record invocation
    get,        \* the last get_billing_record invocation
    origin,     \* per migrated id, what get_billing_record returned before the migration
    issued,     \* the ids 1..issued have been given to records
    ops         \* mutating operations so far

vars == <<now, primary, index, blobs, arch, arch2, stats, api, upd, rest, get,
         origin, issued, ops>>

\* The three stores as one value, so that a handler can be evaluated on the
\* current stores and on a remembered snapshot alike.
Cur == [primary |-> primary, index |-> index, blobs |-> blobs]

\* ------------------------------------------------------------ store clients
\* CosmosDBClient.get_billing_record: read_item, None when the item is absent
cosmos_get_billing_record(S, record_id) == S.primary[record_id]

\* CosmosDBClient.get_archive_index: read_item, None when the entry is absent
get_archive_index(S, record_id) == S.index[record_id]

\* CosmosDBClient.create_archive_index: create_item(archive_index.dict())
create_archive_index(S, archive_index) == [S EXCEPT !.index[archive_index.id] = archive_index]

\* CosmosDBClient.create_billing_record: create_item(record.dict())
create_billing_record(S, record) == [S EXCEPT !.primary[record.id] = record]

\* CosmosDBClient.delete_record: delete_item on the records container; an
\* absent item is reported, not raised.
delete_record(S, record_id) == [S EXCEPT !.primary[record_id] = None]

\* Mutant: the upload is dropped without an error.
upload_billing_record_dropped(S, record_id, record_data) == S

\* Mutant: the record is serialised through the declared model, which drops
\* the fields it does not declare.
upload_billing_record_declared(S, record_id, record_data) ==
    [S EXCEPT !.blobs[BlobName(record_id)] = BillingRecordDict(record_data)]

\* BlobStorageClient.upload_billing_record: the record's JSON text at the
\* canonical name, overwrite=True.  The documents are JSON values already, so
\* json.loads gives back what json.dumps was given.
upload_billing_record(S, record_id, record_data) ==
    [S EXCEPT !.blobs[BlobName(record_id)] = record_data]

\* BlobStorageClient.download_billing_record_by_path: None when the blob is absent
download_billing_record_by_path(S, blob_path) ==
    IF blob_path \in DOMAIN S.blobs THEN S.blobs[blob_path] ELSE None

\* Mutant: the canonical-name lookup reports every blob absent.
download_billing_record_absent(S, record_id) == None

\* BlobStorageClient.download_billing_record: the blob at the canonical name
download_billing_record(S, record_id) == S.blobs[BlobName(record_id)]

\* BlobStorageClient.delete_billing_record: delete_blob at the canonical
\* name; an absent blob is reported, not raised.
delete_billing_record(S, record_id) == [S EXCEPT !.blobs[BlobName(record_id)] = None]

\* ------------------------------------------------------ get_billing_record
GetIdle == [pc |-> "idle", id |-> 0, archive_index |-> None,
            status |-> "none", data |-> None, calls |-> <<>>, streak |-> 0]

\* Mutant: an indexed blob that is absent ends the lookup with not-found.
GetStepStopAtPath(g, raised, S) ==
    LET called(c) == [g EXCEPT !.calls = Append(g.calls, c)]
        hit(c, r) == [called(c) EXCEPT !.pc = "done", !.status = "ok", !.data = r]
        err(c)    == [called(c) EXCEPT !.pc = "done", !.status = "error"]
    IN  CASE g.pc = "g_primary" ->
               IF raised THEN err("primary")
               ELSE IF cosmos_get_billing_record(S, g.id) # None
                    THEN hit("primary", cosmos_get_billing_record(S, g.id))
               ELSE [called("primary") EXCEPT !.pc = "g_index"]
          [] g.pc = "g_index" ->
               IF raised THEN err("index")
               ELSE IF get_archive_index(S, g.id) # None
                    THEN [called("index") EXCEPT !.pc = "g_path",
                                                 !.archive_index = get_archive_index(S, g.id)]
               ELSE [called("index") EXCEPT !.pc = "g_canon"]
          [] g.pc = "g_path" ->
               IF raised THEN err("path")
               ELSE IF download_billing_record_by_path(S, g.archive_index.blob_path) # None
                    THEN hit("path", download_billing_record_by_path(S, g.archive_index.blob_path))
               ELSE [called("path") EXCEPT !.pc = "done", !.status = "not_found"]
          [] g.pc = "g_canon" ->
               IF raised THEN err("canon")
               ELSE IF download_billing_record(S, g.id) # None
                    THEN hit("canon", download_billing_record(S, g.id))
               ELSE [called("canon") EXCEPT !.pc = "done", !.status = "not_found"]
          [] OTHER -> g

\* One store call of get_billing_record on the stores S.  g is the
\* invocation, raised says whether the store call raises something other
\* than not-found; calls lists the lookups made so far.
GetStep(g, raised, S) ==
    LET called(c) == [g EXCEPT !.calls = Append(g.calls, c)]
        hit(c, r) == [called(c) EXCEPT !.pc = "done", !.status = "ok", !.data = r]
        err(c)    == [called(c) EXCEPT !.pc = "done", !.status = "error"]
    IN  CASE g.pc = "g_primary" ->
               IF raised THEN err("primary")
               ELSE IF cosmos_get_billing_record(S, g.id) # None
                    THEN hit("primary", cosmos_get_billing_record(S, g.id))
               ELSE [called("primary") EXCEPT !.pc = "g_index"]
          [] g.pc = "g_index" ->
               IF raised THEN err("index")
               ELSE IF get_archive_index(S, g.id) # None
                    THEN [called("index") EXCEPT !.pc = "g_path",
                                                 !.archive_index = get_archive_index(S, g.id)]
               ELSE [called("index") EXCEPT !.pc = "g_canon"]
          [] g.pc = "g_path" ->
               IF raised THEN err("path")
               ELSE IF download_billing_record_by_path(S, g.archive_index.blob_path) # None
                    THEN hit("path", download_billing_record_by_path(S, g.archive_index.blob_path))
               ELSE [called("path") EXCEPT !.pc = "g_canon"]
          [] g.pc = "g_canon" ->
               IF raised THEN err("canon")
               ELSE IF download_billing_record(S, g.id) # None
                    THEN hit("canon", download_billing_record(S, g.id))
               ELSE [called("canon") EXCEPT !.pc = "done", !.status = "not_found"]
          [] OTHER -> g

\* get_billing_record from the invocation g to its return, on the stores S;
\* the store call named raiseAt raises.
RECURSIVE GetRun(_, _, _)
GetRun(g, S, raiseAt) ==
    IF g.pc \in {"idle", "done"} THEN g
    ELSE GetRun(GetStep(g, g.pc = raiseAt, S), S, raiseAt)

\* Mutant: the lookup starts at the archive index and skips the primary tier.
GetStartAtIndex(record_id) == [GetIdle EXCEPT !.pc = "g_index", !.id = record_id]

GetStart(record_id) == [GetIdle EXCEPT !.pc = "g_primary", !.id = record_id]

\* get_billing_record(record_id) on the stores S with no store call raising.
GetRecordIn(S, record_id) == GetRun(GetStart(record_id), S, "none")

GetRecord(record_id) == GetRecordIn(Cur, record_id)

\* ----------------------------------------------------- archive_old_records
\* The fields of the invocation and of its ArchiveResponse (success,
\* archived_count, message), and what an observer records of the run: pre, the
\* stores when it started; failed and migrated, the ids whose migration was
\* skipped and counted; deleted, the ids whose primary delete found the
\* record; raised, the store calls that raised.
ArchIdle == [pc |-> "idle", cutoff |-> 0, batch_size |-> BATCH_SIZE,
             records |-> <<>>, p |-> 0, blob_path |-> <<>>,
             batch_archived |-> 0, archived_count |-> 0, success |-> FALSE,
             message |-> "none",
             pre |-> None, failed |-> {}, migrated |-> {}, deleted |-> {}, raised |-> 0]

\* Mutant: the query selects created_at <= cutoff.
get_records_to_archive_inclusive(S, cutoff) ==
    {S.primary[i] : i \in {k \in Ids : S.primary[k] # None /\ S.primary[k].created_at <= cutoff}}

\* SELECT * FROM c WHERE c.created_at < @cutoff
get_records_to_archive(S, cutoff) ==
    {S.primary[i] : i \in {k \in Ids : S.primary[k] # None /\ S.primary[k].created_at < cutoff}}

\* The query returns its items in some order, each item once.
IsOrder(s, items) ==
    /\ Len(s) = Cardinality(items)
    /\ \A x \in items : \E p \in DOMAIN s : s[p] = x

Orders(items) == {s \in [1..Cardinality(items) -> items] : IsOrder(s, items)}

\* Mutant: a query that raises is taken for a query that found nothing.
ArchStartSwallow(S, t, queryRaised, records_to_archive) ==
    LET cutoff_date == t - ARCHIVAL_DAYS_THRESHOLD
        a == [ArchIdle EXCEPT !.cutoff = cutoff_date, !.pre = S]
    IN  IF queryRaised \/ records_to_archive = <<>>
        THEN [a EXCEPT !.pc = "done", !.success = TRUE, !.raised = IF queryRaised THEN 1 ELSE 0,
                       !.message = "No records found for archival"]
        ELSE [a EXCEPT !.pc = "a_upload", !.records = records_to_archive, !.p = 1]

\* archive_old_records up to the first batch: the cutoff, the query and the
\* early returns.  records_to_archive is the query's result.
ArchStart(S, t, queryRaised, records_to_archive) ==
    LET cutoff_date == t - ARCHIVAL_DAYS_THRESHOLD
        a == [ArchIdle EXCEPT !.cutoff = cutoff_date, !.pre = S]
    IN  IF queryRaised
        THEN [a EXCEPT !.pc = "done", !.success = FALSE, !.raised = 1,
                       !.message = "Archival process failed"]
        ELSE IF records_to_archive = <<>>
        THEN [a EXCEPT !.pc = "done", !.success = TRUE,
                       !.message = "No records found for archival"]
        ELSE [a EXCEPT !.pc = "a_upload", !.records = records_to_archive, !.p = 1]

\* Mutant: a record whose migration raises ends the run (the exception leaves
\* the loop instead of being caught per record).
NextRecordAbort(a, counted) ==
    LET record_id == a.records[a.p].id
        ba == IF counted THEN a.batch_archived + 1 ELSE a.batch_archived
        batchEnd == a.p % a.batch_size = 0 \/ a.p = Len(a.records) \/ ~counted
        b == [a EXCEPT !.batch_archived = IF batchEnd THEN 0 ELSE ba,
                       !.archived_count = IF batchEnd THEN @ + ba ELSE @,
                       !.blob_path = <<>>,
                       !.failed = IF counted THEN @ ELSE @ \cup {record_id},
                       !.migrated = IF counted THEN @ \cup {record_id} ELSE @]
    IN  IF a.p = Len(a.records) \/ ~counted
        THEN [b EXCEPT !.pc = "done", !.success = TRUE, !.message = "Successfully archived"]
        ELSE [b EXCEPT !.pc = "a_upload", !.p = a.p + 1]

\* Mutant: the exception of a sub-step is not caught; it leaves the run and
\* reaches the caller.
NextRecordPropagate(a, counted) ==
    LET record_id == a.records[a.p].id
        ba == IF counted THEN a.batch_archived + 1 ELSE a.batch_archived
        batchEnd == a.p % a.batch_size = 0 \/ a.p = Len(a.records)
        b == [a EXCEPT !.batch_archived = IF batchEnd THEN 0 ELSE ba,
                       !.archived_count = IF batchEnd THEN @ + ba ELSE @,
                       !.blob_path = <<>>,
                       !.failed = IF counted THEN @ ELSE @ \cup {record_id},
                       !.migrated = IF counted THEN @ \cup {record_id} ELSE @]
    IN  IF ~counted THEN [a EXCEPT !.pc = "raised"]
        ELSE IF a.p = Len(a.records)
        THEN [b EXCEPT !.pc = "done", !.success = TRUE, !.message = "Successfully archived"]
        ELSE [b EXCEPT !.pc = "a_upload", !.p = a.p + 1]

\* Mutant: only the count of a full batch goes into archived_count.
NextRecordLastBatchLost(a, counted) ==
    LET record_id == a.records[a.p].id
        ba == IF counted THEN a.batch_archived + 1 ELSE a.batch_archived
        batchEnd == a.p % a.batch_size = 0 \/ a.p = Len(a.records)
        b == [a EXCEPT !.batch_archived = IF batchEnd THEN 0 ELSE ba,
                       !.archived_count = IF a.p % a.batch_size = 0 THEN @ + ba ELSE @,
                       !.blob_path = <<>>,
                       !.failed = IF counted THEN @ ELSE @ \cup {record_id},
                       !.migrated = IF counted THEN @ \cup {record_id} ELSE @]
    IN  IF a.p = Len(a.records)
        THEN [b EXCEPT !.pc = "done", !.success = TRUE, !.message = "Successfully archived"]
        ELSE [b EXCEPT !.pc = "a_upload", !.p = a.p + 1]

\* The loop of _archive_batch and of archive_old_records after the record at
\* position p: the batch count goes into archived_count at the end of each
\* batch, the run returns after the last record.
NextRecord(a, counted) ==
    LET record_id == a.records[a.p].id
        ba == IF counted THEN a.batch_archived + 1 ELSE a.batch_archived
        batchEnd == a.p % a.batch_size = 0 \/ a.p = Len(a.records)
        b == [a EXCEPT !.batch_archived = IF batchEnd THEN 0 ELSE ba,
                       !.archived_count = IF batchEnd THEN @ + ba ELSE @,
                       !.blob_path = <<>>,
                       !.failed = IF counted THEN @ ELSE @ \cup {record_id},
                       !.migrated = IF counted THEN @ \cup {record_id} ELSE @]
    IN  IF a.p = Len(a.records)
        THEN [b EXCEPT !.pc = "done", !.success = TRUE, !.message = "Successfully archived"]
        ELSE [b EXCEPT !.pc = "a_upload", !.p = a.p + 1]

\* Mutant: a record that cannot be migrated ends the batch and the run.
SkipRecordAbort(a) == NextRecordAbort(a, FALSE)

\* `continue`: the loop of _archive_batch goes on to the next record without
\* counting this one.
SkipRecord(a) == NextRecord(a, FALSE)

\* Mutant: the record is deleted from the primary tier first and uploaded
\* last.
ArchStepDeleteFirst(a, raised, S) ==
    LET record == a.records[a.p]
        skip == [proc |-> [NextRecord(a, FALSE) EXCEPT !.raised = IF raised THEN @ + 1 ELSE @],
                 S |-> S]
    IN  CASE a.pc = "a_upload" ->
               IF raised THEN skip
               ELSE [proc |-> [a EXCEPT !.pc = "a_index", !.blob_path = BlobName(record.id),
                                  !.deleted = IF cosmos_get_billing_record(S, record.id) # None
                                              THEN @ \cup {record.id} ELSE @],
                     S |-> delete_record(S, record.id)]
          [] a.pc = "a_index" ->
               IF raised \/ get_archive_index(S, record.id) # None THEN skip
               ELSE [proc |-> [a EXCEPT !.pc = "a_delete"],
                     S |-> create_archive_index(S,
                               ArchiveIndex(record.id, a.blob_path, record.created_at))]
          [] a.pc = "a_delete" ->
               IF raised THEN skip
               ELSE [proc |-> NextRecord(a, TRUE),
                     S |-> upload_billing_record(S, record.id, record)]
          [] OTHER -> [proc |-> a, S |-> S]

\* Mutant: a record whose index entry cannot be created has its uploaded blob
\* removed again.
ArchStepRollback(a, raised, S) ==
    LET record == a.records[a.p]
        skip == [proc |-> [NextRecord(a, FALSE) EXCEPT !.raised = IF raised THEN @ + 1 ELSE @],
                 S |-> S]
    IN  CASE a.pc = "a_upload" ->
               IF raised THEN skip
               ELSE [proc |-> [a EXCEPT !.pc = "a_index", !.blob_path = BlobName(record.id)],
                     S |-> upload_billing_record(S, record.id, record)]
          [] a.pc = "a_index" ->
               IF raised \/ get_archive_index(S, record.id) # None
               THEN [skip EXCEPT !.S = delete_billing_record(S, record.id)]
               ELSE [proc |-> [a EXCEPT !.pc = "a_delete"],
                     S |-> create_archive_index(S,
                               ArchiveIndex(record.id, a.blob_path, record.created_at))]
          [] a.pc = "a_delete" ->
               IF raised THEN skip
               ELSE [proc |-> [NextRecord(a, TRUE) EXCEPT
                                  !.deleted = IF cosmos_get_billing_record(S, record.id) # None
                                              THEN @ \cup {record.id} ELSE @],
                     S |-> delete_record(S, record.id)]
          [] OTHER -> [proc |-> a, S |-> S]

\* Mutant: the index store replaces an entry whose id exists.
ArchStepUpsert(a, raised, S) ==
    LET record == a.records[a.p]
        skip == [proc |-> [NextRecord(a, FALSE) EXCEPT !.raised = IF raised THEN @ + 1 ELSE @],
                 S |-> S]
    IN  CASE a.pc = "a_upload" ->
               \* record.get('id'); if not record_id: continue
               IF record.id = NoId THEN [proc |-> SkipRecord(a), S |-> S]
               \* blob_client.upload_billing_record(record_id, record), overwrite=True
               ELSE IF raised THEN skip
               ELSE [proc |-> [a EXCEPT !.pc = "a_index", !.blob_path = BlobName(record.id)],
                     S |-> upload_billing_record(S, record.id, record)]
          [] a.pc = "a_index" ->
               \* ArchiveIndex(original_created_at=datetime.fromisoformat(...)),
               \* which raises before the store is called; then
               \* cosmos_client.create_archive_index: create_item, which the
               \* store rejects when an entry with that id exists
               IF fromisoformat(record.created_at).raised THEN [proc |-> SkipRecord(a), S |-> S]
               ELSE IF raised THEN skip
               ELSE [proc |-> [a EXCEPT !.pc = "a_delete"],
                     S |-> create_archive_index(S,
                               ArchiveIndex(record.id, a.blob_path,
                                            fromisoformat(record.created_at).value))]
          [] a.pc = "a_delete" ->
               \* cosmos_client.delete_record(record_id); archived_count += 1
               IF raised THEN skip
               ELSE [proc |-> [NextRecord(a, TRUE) EXCEPT
                                  !.deleted = IF cosmos_get_billing_record(S, record.id) # None
                                              THEN @ \cup {record.id} ELSE @],
                     S |-> delete_record(S, record.id)]
          [] OTHER -> [proc |-> a, S |-> S]

\* One store call of _archive_batch for the record at position p.
ArchStep(a, raised, S) ==
    LET record == a.records[a.p]
        skip == [proc |-> [NextRecord(a, FALSE) EXCEPT !.raised = IF raised THEN @ + 1 ELSE @],
                 S |-> S]
    IN  CASE a.pc = "a_upload" ->
               \* record.get('id'); if not record_id: continue
               IF record.id = NoId THEN [proc |-> SkipRecord(a), S |-> S]
               \* blob_client.upload_billing_record(record_id, record), overwrite=True
               ELSE IF raised THEN skip
               ELSE [proc |-> [a EXCEPT !.pc = "a_index", !.blob_path = BlobName(record.id)],
                     S |-> upload_billing_record(S, record.id, record)]
          [] a.pc = "a_index" ->
               \* ArchiveIndex(original_created_at=datetime.fromisoformat(...)),
               \* which raises before the store is called; then
               \* cosmos_client.create_archive_index: create_item, which the
               \* store rejects when an entry with that id exists
               IF fromisoformat(record.created_at).raised THEN [proc |-> SkipRecord(a), S |-> S]
               ELSE IF raised \/ get_archive_index(S, record.id) # None THEN skip
               ELSE [proc |-> [a EXCEPT !.pc = "a_delete"],
                     S |-> create_archive_index(S,
                               ArchiveIndex(record.id, a.blob_path,
                                            fromisoformat(record.created_at).value))]
          [] a.pc = "a_delete" ->
               \* cosmos_client.delete_record(record_id); archived_count += 1
               IF raised THEN skip
               ELSE [proc |-> [NextRecord(a, TRUE) EXCEPT
                                  !.deleted = IF cosmos_get_billing_record(S, record.id) # None
                                              THEN @ \cup {record.id} ELSE @],
                     S |-> delete_record(S, record.id)]
          [] OTHER -> [proc |-> a, S |-> S]

\* archive_old_records from the invocation a to its return; raiseAt[p] names
\* the store call that raises for the record at position p.
RECURSIVE ArchRun(_, _, _)
ArchRun(a, S, raiseAt) ==
    IF a.pc \in {"idle", "done"} THEN [proc |-> a, S |-> S]
    ELSE LET next == ArchStep(a, raiseAt[a.p] = a.pc, S)
         IN  ArchRun(next.proc, next.S, raiseAt)

\* --------------------------------------------------------- restore_record
RestIdle == [pc |-> "idle", id |-> 0, archive_index |-> None, record |-> None,
             result |-> FALSE, pre |-> None, origin |-> None, raisedAt |-> "none"]

RestStart(S, record_id, org) ==
    [RestIdle EXCEPT !.pc = "r_index", !.id = record_id, !.pre = S, !.origin = org]

\* Mutant: restore_record reports success whatever happened.
RestDoneTrue(r, result, at) == [r EXCEPT !.pc = "done", !.result = TRUE, !.raisedAt = at]

RestDone(r, result, at) == [r EXCEPT !.pc = "done", !.result = result, !.raisedAt = at]

\* Mutant: an index entry whose blob is absent is removed by the restore.
RestStepDropStale(r, raised, S) ==
    LET fail == [proc |-> RestDone(r, FALSE, IF raised THEN r.pc ELSE "none"), S |-> S]
    IN  CASE r.pc = "r_index" ->
               \* cosmos_client.get_archive_index(record_id)
               IF raised \/ get_archive_index(S, r.id) = None THEN fail
               ELSE [proc |-> [r EXCEPT !.pc = "r_download",
                                        !.archive_index = get_archive_index(S, r.id)],
                     S |-> S]
          [] r.pc = "r_download" ->
               \* blob_client.download_billing_record_by_path(archive_index['blob_path'])
               IF raised THEN fail
               ELSE IF download_billing_record_by_path(S, r.archive_index.blob_path) = None
               THEN [fail EXCEPT !.S = [S EXCEPT !.index[r.id] = None]]
               ELSE [proc |-> [r EXCEPT !.pc = "r_create",
                                        !.record = download_billing_record_by_path(
                                                       S, r.archive_index.blob_path)],
                     S |-> S]
          [] r.pc = "r_create" ->
               \* cosmos_client.create_billing_record(BillingRecord(**record)):
               \* create_item, which the store rejects when the id is in the container
               IF raised \/ cosmos_get_billing_record(S, r.record.id) # None THEN fail
               ELSE [proc |-> [r EXCEPT !.pc = "r_blobdel"],
                     S |-> create_billing_record(S, BillingRecordDict(r.record))]
          [] r.pc = "r_blobdel" ->
               \* blob_client.delete_billing_record(record_id)
               IF raised THEN fail
               ELSE [proc |-> [r EXCEPT !.pc = "r_idxdel"], S |-> delete_billing_record(S, r.id)]
          [] r.pc = "r_idxdel" ->
               \* cosmos_client.delete_record(record_id)
               IF raised THEN fail
               ELSE [proc |-> RestDone(r, TRUE, "none"), S |-> delete_record(S, r.id)]
          [] OTHER -> [proc |-> r, S |-> S]

\* One store call of restore_record.
RestStep(r, raised, S) ==
    LET fail == [proc |-> RestDone(r, FALSE, IF raised THEN r.pc ELSE "none"), S |-> S]
    IN  CASE r.pc = "r_index" ->
               \* cosmos_client.get_archive_index(record_id)
               IF raised \/ get_archive_index(S, r.id) = None THEN fail
               ELSE [proc |-> [r EXCEPT !.pc = "r_download",
                                        !.archive_index = get_archive_index(S, r.id)],
                     S |-> S]
          [] r.pc = "r_download" ->
               \* blob_client.download_billing_record_by_path(archive_index['blob_path'])
               IF raised \/ download_billing_record_by_path(S, r.archive_index.blob_path) = None
               THEN fail
               ELSE [proc |-> [r EXCEPT !.pc = "r_create",
                                        !.record = download_billing_record_by_path(
                                                       S, r.archive_index.blob_path)],
                     S |-> S]
          [] r.pc = "r_create" ->
               \* cosmos_client.create_billing_record(BillingRecord(**record)):
               \* create_item, which the store rejects when the id is in the container
               IF raised \/ cosmos_get_billing_record(S, r.record.id) # None THEN fail
               ELSE [proc |-> [r EXCEPT !.pc = "r_blobdel"],
                     S |-> create_billing_record(S, BillingRecordDict(r.record))]
          [] r.pc = "r_blobdel" ->
               \* blob_client.delete_billing_record(record_id)
               IF raised THEN fail
               ELSE [proc |-> [r EXCEPT !.pc = "r_idxdel"], S |-> delete_billing_record(S, r.id)]
          [] r.pc = "r_idxdel" ->
               \* cosmos_client.delete_record(record_id)
               IF raised THEN fail
               ELSE [proc |-> RestDone(r, TRUE, "none"), S |-> delete_record(S, r.id)]
          [] OTHER -> [proc |-> r, S |-> S]

\* restore_record from the invocation r to its return; the store call named
\* raiseAt raises.
RECURSIVE RestRun(_, _, _)
RestRun(r, S, raiseAt) ==
    IF r.pc \in {"idle", "done"} THEN [proc |-> r, S |-> S]
    ELSE LET next == RestStep(r, r.pc = raiseAt, S)
         IN  RestRun(next.proc, next.S, raiseAt)

\* ------------------------------------------------------ get_archival_stats
\* The invocation and its payload; pre, the stores when it was called, and
\* raisedAt, the read that raised, are what an observer records of it.
StatsIdle == [pc |-> "idle", payload |-> None, pre |-> None, raisedAt |-> "none"]

\* list(container.query_items("SELECT VALUE COUNT(1) FROM c")): the items of
\* the query's result.  The aggregate query has one item, the count.
count_query(items) == <<Cardinality(items)>>

\* blob_client.list_archived_records(): the names of the blobs.
list_archived_records(S) == {b \in BlobNames : S.blobs[b] # None}

\* Mutant: a read that raises counts as zero and the payload is returned.
get_archival_stats_defaulted(S, raiseAt) ==
    LET cosmos_count  == Len(count_query({i \in Ids : S.primary[i] # None}))
        archive_count == Len(count_query({i \in Ids : S.index[i] # None}))
        archived_blobs == list_archived_records(S)
    IN  [cosmos_db_records |-> IF raiseAt = "cosmos" THEN 0 ELSE cosmos_count,
         archived_records |-> IF raiseAt = "index" THEN 0 ELSE archive_count,
         blob_storage_files |-> IF raiseAt = "blobs" THEN 0 ELSE Cardinality(archived_blobs),
         archival_threshold_days |-> ARCHIVAL_DAYS_THRESHOLD]

\* get_archival_stats on the stores S; the read named raiseAt raises.
get_archival_stats(S, raiseAt) ==
    LET cosmos_count  == Len(count_query({i \in Ids : S.primary[i] # None}))
        archive_count == Len(count_query({i \in Ids : S.index[i] # None}))
        archived_blobs == list_archived_records(S)
    IN  IF raiseAt # "none" THEN [error |-> "raised"]
        ELSE [cosmos_db_records |-> cosmos_count,
              archived_records |-> archive_count,
              blob_storage_files |-> Cardinality(archived_blobs),
              archival_threshold_days |-> ARCHIVAL_DAYS_THRESHOLD]

\* ------------------------------------ cosmos_client.update_billing_record
\* The invocation: existing_record is the document read and merged; result
\* is the value returned, raised whether an exception left the call instead;
\* during records that the replace was made while an archive run that had
\* selected the record was at work.
UpdIdle == [pc |-> "idle", id |-> 0, updates |-> None, existing_record |-> None,
            result |-> FALSE, raised |-> FALSE, during |-> FALSE]

UpdStart(record_id, updates) ==
    [UpdIdle EXCEPT !.pc = "u_read", !.id = record_id, !.updates = updates]

\* existing_record.update(updates)
Merge(record, updates) ==
    [f \in DOMAIN record |-> IF f \in DOMAIN updates THEN updates[f] ELSE record[f]]

\* One store call of update_billing_record.
UpdStep(u, raised, S) ==
    CASE u.pc = "u_read" ->
           \* self.get_billing_record(record_id); if not existing_record: return False
           IF raised THEN [proc |-> [u EXCEPT !.pc = "done", !.raised = TRUE], S |-> S]
           ELSE IF cosmos_get_billing_record(S, u.id) = None
           THEN [proc |-> [u EXCEPT !.pc = "done", !.result = FALSE], S |-> S]
           ELSE [proc |-> [u EXCEPT !.pc = "u_replace",
                                    !.existing_record =
                                        Merge(cosmos_get_billing_record(S, u.id), u.updates)],
                 S |-> S]
      [] u.pc = "u_replace" ->
           \* container.replace_item, which the store rejects when the id is
           \* not in the container
           IF raised \/ cosmos_get_billing_record(S, u.id) = None
           THEN [proc |-> [u EXCEPT !.pc = "done", !.raised = TRUE], S |-> S]
           ELSE [proc |-> [u EXCEPT !.pc = "done", !.result = TRUE],
                 S |-> [S EXCEPT !.primary[u.id] = u.existing_record]]
      [] OTHER -> [proc |-> u, S |-> S]

\* ------------------------------------------- PUT and DELETE /billing/{id}
\* Mutant: the blob is deleted only when the primary tier did not hold the
\* record.
delete_documents_either(S, record_id, raiseAt) ==
    IF raiseAt = "cosmos" THEN S
    ELSE IF raiseAt = "blob" \/ cosmos_get_billing_record(S, record_id) # None
    THEN delete_record(S, record_id)
    ELSE delete_billing_record(delete_record(S, record_id), record_id)

\* The two deletes of DELETE /billing/{id}: cosmos_client.delete_record, then
\* blob_client.delete_billing_record; raiseAt names the one that raises.
delete_documents(S, record_id, raiseAt) ==
    IF raiseAt = "cosmos" THEN S
    ELSE IF raiseAt = "blob" THEN delete_record(S, record_id)
    ELSE delete_billing_record(delete_record(S, record_id), record_id)

\* The request and the status code of its response; pre, the stores when it
\* arrived, and raiseAt, the store call that raised, are what an observer
\* records of it.
ApiIdle == [pc |-> "idle", op |-> "none", id |-> 0, status_code |-> 0,
            pre |-> None, raiseAt |-> "none"]

\* ------------------------------------------------------------------ state
InProgress(proc) == proc.pc \notin {"idle", "done"}

\* No operation is in progress.
Quiescent == ~InProgress(arch) /\ ~InProgress(rest) /\ ~InProgress(get)

\* No operation is in progress and every caller has its result.
Idle == arch.pc = "idle" /\ rest.pc = "idle" /\ get.pc = "idle"

\* A record as POST /billing stored it before the threshold went by.
OldRecord(i) == [id |-> i, created_at |-> 0, extra |-> FALSE]

\* The service starts on a primary tier that holds one record more than a
\* batch, all due for archival, and on an empty cold tier.
InitialRecords == BATCH_SIZE + 1

\* Record ids are interchangeable, so the ids in use are 1..issued and a new
\* record gets the least unused id.
Init ==
    /\ now = Today
    /\ issued = InitialRecords
    /\ primary = [i \in Ids |-> IF i <= InitialRecords THEN OldRecord(i) ELSE None]
    /\ index = [i \in Ids |-> None]
    /\ blobs = [b \in BlobNames |-> None]
    /\ arch = ArchIdle
    /\ arch2 = ArchIdle
    /\ stats = StatsIdle
    /\ api = ApiIdle
    /\ upd = UpdIdle
    /\ rest = RestIdle
    /\ get = GetIdle
    /\ origin = [i \in Ids |-> None]
    /\ ops = 0

\* The stores become S.
Store(S) == primary' = S.primary /\ index' = S.index /\ blobs' = S.blobs

\* ------------------------------------------------------- API: POST /billing
\* create_billing_record: container.create_item, which the store rejects when
\* the id is in the container.
CreateBillingRecord(record) ==
    /\ record.id <= issued + 1
    /\ cosmos_get_billing_record(Cur, record.id) = None
    /\ Store(create_billing_record(Cur, record))
    /\ origin' = [origin EXCEPT ![record.id] = None]
    /\ issued' = IF record.id > issued THEN record.id ELSE issued
    /\ ops' = ops + 1
    /\ UNCHANGED <<now, api, upd, arch2, stats, arch, rest, get>>

\* ------------------------------------------------ API: PUT /billing/{id}
\* The bodies of PUT /billing/{id}: a field the model does not declare, or a
\* new created_at.
Updates == {[extra |-> TRUE]} \cup {[created_at |-> c] : c \in CreatedAts}

\* get_billing_record, then cosmos_client.update_billing_record: read_item,
\* merge, replace_item.
UpdateBillingRecord(record_id, updates) ==
    /\ GetRecord(record_id).status = "ok"
    /\ primary[record_id] # None
    /\ primary' = [primary EXCEPT ![record_id] = Merge(primary[record_id], updates)]
    /\ ops' = ops + 1
    /\ UNCHANGED <<now, api, upd, arch2, stats, index, blobs, origin, issued, arch, rest, get>>

\* --------------------------------------------- API: DELETE /billing/{id}
\* get_billing_record, then cosmos_client.delete_record, then
\* blob_client.delete_billing_record; raiseAt names the store call that
\* raises, if any.
DeleteBillingRecord(record_id, raiseAt) ==
    /\ GetRecord(record_id).status = "ok"
    /\ Store(delete_documents(Cur, record_id, raiseAt))
    /\ origin' = [origin EXCEPT ![record_id] = None]
    /\ ops' = ops + 1
    /\ UNCHANGED <<now, api, upd, arch2, stats, issued, arch, rest, get>>

\* Mutant: the exception of a store call is reported as a record not found.
GetRaisedAsNotFound(record_id) ==
    [GetIdle EXCEPT !.pc = "done", !.id = record_id, !.status = "not_found"]

\* The exception of a store call leaves the caller without a result.
GetRaised(record_id) == [GetIdle EXCEPT !.pc = "done", !.id = record_id, !.status = "error"]

\* Mutant: a record found in the cold tier is removed from it by the read.
GetBillingRecordConsuming(record_id, raiseAt) ==
    /\ arch.pc = "idle" /\ rest.pc = "idle"
    /\ get.pc = "done" => (get.id = record_id /\ get.status # "error")
    /\ \E g \in {GetRun(GetStart(record_id), Cur, raiseAt)} :
           /\ raiseAt # "none" => g.status = "error"
           /\ get' = IF g.status = "error" THEN GetRaised(record_id)
                     ELSE [g EXCEPT !.streak = IF get.pc = "done" THEN 2 ELSE 1]
           /\ Store(IF g.status = "ok" /\ g.calls # <<"primary">>
                    THEN delete_billing_record(Cur, record_id) ELSE Cur)
    /\ UNCHANGED <<now, api, upd, arch2, stats, arch, rest, origin, issued, ops>>

\* ------------------------------------------------------ get_billing_record
GetBillingRecord(record_id, raiseAt) ==
    /\ arch.pc = "idle" /\ rest.pc = "idle"
    /\ get.pc = "done" => (get.id = record_id /\ get.status # "error")
    /\ \E g \in {GetRun(GetStart(record_id), Cur, raiseAt)} :
           /\ raiseAt # "none" => g.status = "error"
           \* streak: 2 when this call directly follows a returned call for the same id
           /\ get' = IF g.status = "error" THEN GetRaised(record_id)
                     ELSE [g EXCEPT !.streak = IF get.pc = "done" THEN 2 ELSE 1]
    /\ UNCHANGED <<now, api, upd, arch2, stats, primary, index, blobs, arch, rest, origin, issued, ops>>

\* ----------------------------------------------------- archive_old_records
ArchiveOldRecords(queryRaised, records_to_archive, raiseAt) ==
    /\ queryRaised \/ IsOrder(records_to_archive,
                               get_records_to_archive(Cur, now - ARCHIVAL_DAYS_THRESHOLD))
    /\ \E out \in {ArchRun(ArchStart(Cur, now, queryRaised, records_to_archive), Cur, raiseAt)} :
           /\ out.proc.raised <= MaxFails
           /\ out.proc.raised = Cardinality({p \in DOMAIN raiseAt : raiseAt[p] # "none"})
                                + (IF queryRaised THEN 1 ELSE 0)
           /\ arch' = out.proc
           /\ Store(out.S)
           /\ origin' = [i \in Ids |-> IF i \in out.proc.migrated
                                       THEN GetRecordIn(Cur, i).data ELSE origin[i]]
    /\ ops' = ops + 1
    /\ UNCHANGED <<now, api, upd, arch2, stats, issued, rest, get>>

\* --------------------------------------------------------- restore_record
RestoreRecord(record_id, raiseAt) ==
    /\ \E out \in {RestRun(RestStart(Cur, record_id, origin[record_id]), Cur, raiseAt)} :
           /\ out.proc.raisedAt = raiseAt
           /\ rest' = out.proc
           /\ Store(out.S)
           /\ origin' = IF out.S = Cur THEN origin ELSE [origin EXCEPT ![record_id] = None]
    /\ ops' = ops + 1
    /\ UNCHANGED <<now, api, upd, arch2, stats, issued, arch, get>>

\* The caller takes the result of the operation that returned.
Return ==
    /\ Quiescent /\ ~Idle
    /\ arch' = ArchIdle /\ rest' = RestIdle /\ get' = GetIdle
    /\ UNCHANGED <<now, api, upd, arch2, stats, primary, index, blobs, origin, issued, ops>>

\* ---------------------------------------------------------- specification
\* Operations run one at a time, each from its call to its return; a
\* behaviour has at most MaxOps operations that write to a store.
CanStart == Idle /\ ops < MaxOps

Create ==
    /\ CanStart
    /\ \E record \in BillingRecord : record.extra = FALSE /\ CreateBillingRecord(record)

Update ==
    /\ CanStart
    /\ \E i \in Ids, updates \in Updates : UpdateBillingRecord(i, updates)

Delete ==
    /\ CanStart
    /\ \E i \in Ids, raiseAt \in {"none", "cosmos", "blob"} : DeleteBillingRecord(i, raiseAt)

Get ==
    /\ Idle
    /\ \E i \in Ids, raiseAt \in {"none", "g_primary", "g_index", "g_path", "g_canon"} :
         GetBillingRecord(i, raiseAt)

\* The caller repeats the call that just returned.
GetAgain == get.pc = "done" /\ GetBillingRecord(get.id, "none")

Archive ==
    /\ CanStart
    /\ \/ ArchiveOldRecords(TRUE, <<>>, <<>>)
       \/ \E records_to_archive \in Orders(get_records_to_archive(Cur, now - ARCHIVAL_DAYS_THRESHOLD)) :
            \E raiseAt \in [DOMAIN records_to_archive -> {"none", "a_upload", "a_index", "a_delete"}] :
               ArchiveOldRecords(FALSE, records_to_archive, raiseAt)

Restore ==
    /\ CanStart
    /\ \E i \in Ids, raiseAt \in {"none", "r_index", "r_download", "r_create", "r_blobdel", "r_idxdel"} :
         RestoreRecord(i, raiseAt)

Next ==
    \/ Create
    \/ Update
    \/ Delete
    \/ Get
    \/ GetAgain
    \/ Archive
    \/ Restore
    \/ Return

Spec == Init /\ [][Next]_vars

\* Failure-free runs of create, archive_old_records and restore_record.
ArchiveNoFailure ==
    /\ CanStart
    /\ \E records_to_archive \in Orders(get_records_to_archive(Cur, now - ARCHIVAL_DAYS_THRESHOLD)) :
         ArchiveOldRecords(FALSE, records_to_archive, [p \in DOMAIN records_to_archive |-> "none"])

RestoreNoFailure == CanStart /\ \E i \in Ids : RestoreRecord(i, "none")

GetNoFailure == Idle /\ \E i \in Ids : GetBillingRecord(i, "none")

NextNoFailure ==
    \/ Create
    \/ ArchiveNoFailure
    \/ RestoreNoFailure
    \/ GetNoFailure
    \/ GetAgain
    \/ Return

SpecNoFailure == Init /\ [][NextNoFailure]_vars

\* ------------------------------------------------------ GET /stats
\* get_archival_stats: three reads and the payload.
GetArchivalStats(raiseAt) ==
    /\ stats.pc = "idle"
    /\ stats' = [pc |-> "done", payload |-> get_archival_stats(Cur, raiseAt),
                 pre |-> Cur, raisedAt |-> raiseAt]
    /\ UNCHANGED <<now, api, upd, primary, index, blobs, arch, arch2, rest, get, origin, issued, ops>>

\* The caller takes the payload.
StatsReturn ==
    /\ stats.pc = "done"
    /\ stats' = StatsIdle
    /\ UNCHANGED <<now, api, upd, primary, index, blobs, arch, arch2, rest, get, origin, issued, ops>>

Stats == Idle /\ \E raiseAt \in {"none", "cosmos", "index", "blobs"} : GetArchivalStats(raiseAt)

\* The statistics are read between operations, none of them under way.
NextStats ==
    \/ stats.pc = "idle" /\ Create
    \/ stats.pc = "idle" /\ Delete
    \/ stats.pc = "idle" /\ Archive
    \/ stats.pc = "idle" /\ Restore
    \/ stats.pc = "idle" /\ Return
    \/ Stats
    \/ StatsReturn

SpecStats == Init /\ [][NextStats]_vars

\* ------------------------------------------- operations, call by call
\* The handlers above run from call to return in one step.  Here a handler
\* takes one step per store call, so that the calls of operations that run
\* at the same time interleave.

\* archive_old_records is invoked and makes its selection query.
ArchBegin(queryRaised, records_to_archive) ==
    /\ arch.pc = "idle"
    /\ queryRaised \/ IsOrder(records_to_archive,
                               get_records_to_archive(Cur, now - ARCHIVAL_DAYS_THRESHOLD))
    /\ arch' = ArchStart(Cur, now, queryRaised, records_to_archive)
    /\ UNCHANGED <<now, api, upd, arch2, stats, primary, index, blobs, rest, get, origin, issued, ops>>

\* The next store call of the archive run.
ArchCall(raised) ==
    /\ InProgress(arch)
    /\ \E out \in {ArchStep(arch, raised, Cur)} :
           /\ arch' = out.proc
           /\ Store(out.S)
           /\ origin' = [i \in Ids |-> IF i \in out.proc.migrated \ arch.migrated
                                       THEN GetRecordIn(arch.pre, i).data ELSE origin[i]]
    /\ UNCHANGED <<now, api, upd, arch2, stats, rest, get, issued, ops>>

\* The caller takes the ArchiveResponse.
ArchReturn ==
    /\ arch.pc = "done"
    /\ arch' = ArchIdle
    /\ UNCHANGED <<now, api, upd, arch2, stats, primary, index, blobs, rest, get, origin, issued, ops>>

\* restore_record(record_id) is invoked.
RestBegin(record_id) ==
    /\ rest.pc = "idle"
    /\ ops < MaxOps
    /\ rest' = RestStart(Cur, record_id, origin[record_id])
    /\ ops' = ops + 1
    /\ UNCHANGED <<now, api, upd, arch2, stats, primary, index, blobs, arch, get, origin, issued>>

\* The next store call of restore_record.
RestCall(raised) ==
    /\ InProgress(rest)
    /\ \E out \in {RestStep(rest, raised, Cur)} :
           /\ rest' = out.proc
           /\ Store(out.S)
           /\ origin' = IF out.S = Cur THEN origin ELSE [origin EXCEPT ![rest.id] = None]
    /\ UNCHANGED <<now, api, upd, arch2, stats, arch, get, issued, ops>>

\* The caller takes the result of restore_record.
RestReturn ==
    /\ rest.pc = "done"
    /\ rest' = RestIdle
    /\ UNCHANGED <<now, api, upd, arch2, stats, primary, index, blobs, arch, get, origin, issued, ops>>

\* get_billing_record(record_id) is invoked.
GetBegin(record_id) ==
    /\ get.pc = "idle"
    /\ get' = GetStart(record_id)
    /\ UNCHANGED <<now, api, upd, arch2, stats, primary, index, blobs, arch, rest, origin, issued, ops>>

\* The next store call of get_billing_record.
GetCall(raised) ==
    /\ InProgress(get)
    /\ \E g \in {GetStep(get, raised, Cur)} :
           get' = IF g.status = "error" THEN GetRaised(get.id) ELSE g
    /\ UNCHANGED <<now, api, upd, arch2, stats, primary, index, blobs, arch, rest, origin, issued, ops>>

\* The caller takes the result of get_billing_record.
GetReturn ==
    /\ get.pc = "done"
    /\ get' = GetIdle
    /\ UNCHANGED <<now, api, upd, arch2, stats, primary, index, blobs, arch, rest, origin, issued, ops>>

\* An archive run that raises nothing leaves nothing to select, so the runs
\* need no bound; the restores and the deletes are counted.
ArchBeginNoFailure ==
    \E records_to_archive \in Orders(get_records_to_archive(Cur, now - ARCHIVAL_DAYS_THRESHOLD)) :
        ArchBegin(FALSE, records_to_archive)

\* DELETE /billing-records/{record_id} while other operations are under way.
DeleteDuring == ops < MaxOps /\ \E i \in Ids : DeleteBillingRecord(i, "none")

\* An archive run, a restore and API deletes at the same time, no store call
\* raising.
NextConcurrent ==
    \/ ArchBeginNoFailure
    \/ ArchCall(FALSE)
    \/ ArchReturn
    \/ \E i \in Ids : RestBegin(i)
    \/ RestCall(FALSE)
    \/ RestReturn
    \/ DeleteDuring

SpecConcurrent == Init /\ [][NextConcurrent]_vars

\* Lookups at the same time as an archive run, no store call raising.
NextReadDuringArchive ==
    \/ ArchBeginNoFailure
    \/ ArchCall(FALSE)
    \/ ArchReturn
    \/ \E i \in Ids : GetBegin(i)
    \/ GetCall(FALSE)
    \/ GetReturn

SpecReadDuringArchive == Init /\ [][NextReadDuringArchive]_vars

\* One archive run after another, the selection query and every store call
\* of every record free to raise.  A store call returns or raises: the run
\* does not stop between two calls.
ArchBeginAny ==
    \/ ArchBegin(TRUE, <<>>)
    \/ ArchBeginNoFailure

ArchCallAny == \E raised \in BOOLEAN : ArchCall(raised)

NextArchiveCalls ==
    \/ ArchBeginAny
    \/ ArchCallAny
    \/ ArchReturn

SpecArchiveCalls == Init /\ [][NextArchiveCalls]_vars /\ WF_vars(ArchCallAny)

\* Operations one at a time, the archive runs failure-free and not counted,
\* so that a restore can follow an archive run and a delete or another
\* restore.
ArchBeginIdle == Idle /\ ArchBeginNoFailure

NextRestoreStale ==
    \/ ArchBeginIdle
    \/ ArchCall(FALSE)
    \/ Delete
    \/ Restore
    \/ Return

SpecRestoreStale == Init /\ [][NextRestoreStale]_vars

\* PUT /billing/{id} with a created_at that is not a timestamp: the body is a
\* Dict[str, Any] and is merged into the stored document as it is.
UpdateGarbled == CanStart /\ \E i \in Ids : UpdateBillingRecord(i, [created_at |-> Garbled])

\* A document without an id among the items of the selection query.
NoIdRecord == [id |-> NoId, created_at |-> 0, extra |-> FALSE]

\* archive_old_records is invoked and its selection query returns, besides
\* the records due, a document without an id.
ArchBeginMalformed ==
    /\ arch.pc = "idle"
    /\ \E records_to_archive \in
            Orders(get_records_to_archive(Cur, now - ARCHIVAL_DAYS_THRESHOLD) \cup {NoIdRecord}) :
          arch' = ArchStart(Cur, now, FALSE, records_to_archive)
    /\ UNCHANGED <<now, api, upd, primary, index, blobs, arch2, stats, rest, get, origin, issued, ops>>

\* Archive runs over documents that are not well-formed, no store call
\* raising.
NextMalformed ==
    \/ UpdateGarbled
    \/ ArchBeginMalformed
    \/ ArchCall(FALSE)
    \/ ArchReturn

SpecMalformed == Init /\ [][NextMalformed]_vars

\* A second caller of archive_old_records (POST /archive starts the run as a
\* background task, POST /archive/sync runs it in the request): its run, call
\* by call, no store call raising but the index store's rejection of an entry
\* whose id exists.
Arch2Begin ==
    /\ arch2.pc = "idle"
    /\ \E records_to_archive \in Orders(get_records_to_archive(Cur, now - ARCHIVAL_DAYS_THRESHOLD)) :
          arch2' = ArchStart(Cur, now, FALSE, records_to_archive)
    /\ UNCHANGED <<now, api, upd, primary, index, blobs, arch, stats, rest, get, origin, issued, ops>>

Arch2Call ==
    /\ InProgress(arch2)
    /\ \E out \in {ArchStep(arch2, FALSE, Cur)} :
           /\ arch2' = out.proc
           /\ Store(out.S)
           /\ origin' = [i \in Ids |-> IF i \in out.proc.migrated \ arch2.migrated
                                       THEN GetRecordIn(arch2.pre, i).data ELSE origin[i]]
    /\ UNCHANGED <<now, api, upd, arch, stats, rest, get, issued, ops>>

Arch2Return ==
    /\ arch2.pc = "done"
    /\ arch2' = ArchIdle
    /\ UNCHANGED <<now, api, upd, primary, index, blobs, arch, stats, rest, get, origin, issued, ops>>

NextTwoRuns ==
    \/ ArchBeginNoFailure
    \/ ArchCall(FALSE)
    \/ ArchReturn
    \/ Arch2Begin
    \/ Arch2Call
    \/ Arch2Return

SpecTwoRuns == Init /\ [][NextTwoRuns]_vars

\* cosmos_client.update_billing_record(record_id, updates) is invoked.
UpdBegin(record_id, updates) ==
    /\ upd.pc = "idle"
    /\ ops < MaxOps
    /\ upd' = UpdStart(record_id, updates)
    /\ ops' = ops + 1
    /\ UNCHANGED <<now, primary, index, blobs, arch, arch2, stats, api, rest, get, origin, issued>>

\* The next store call of update_billing_record.
UpdCall(raised) ==
    /\ InProgress(upd)
    /\ \E out \in {UpdStep(upd, raised, Cur)} :
           /\ upd' = [out.proc EXCEPT !.during =
                         /\ out.proc.result
                         /\ InProgress(arch)
                         /\ \E p \in DOMAIN arch.records : arch.records[p].id = upd.id]
           /\ Store(out.S)
    /\ UNCHANGED <<now, arch, arch2, stats, api, rest, get, origin, issued, ops>>

\* The caller takes the result of update_billing_record.
UpdReturn ==
    /\ upd.pc = "done"
    /\ upd' = UpdIdle
    /\ UNCHANGED <<now, primary, index, blobs, arch, arch2, stats, api, rest, get, origin, issued, ops>>

\* Updates at the same time as one archive run, no store call raising.
NextUpdateDuringArchive ==
    \/ ArchBeginNoFailure
    \/ ArchCall(FALSE)
    \/ \E i \in Ids, updates \in Updates : UpdBegin(i, updates)
    \/ UpdCall(FALSE)
    \/ UpdReturn

SpecUpdateDuringArchive == Init /\ [][NextUpdateDuringArchive]_vars

\* DELETE /billing/{id}, the whole handler with its response.  The existence
\* check calls get_billing_record, which raises ValueError for an id found
\* nowhere; the handler's `except Exception` takes it.
DeleteRequest(record_id, raiseAt) ==
    LET existing == GetRecord(record_id)
        cosmos_deleted == cosmos_get_billing_record(Cur, record_id) # None
        blob_deleted == download_billing_record(Cur, record_id) # None
        reached == raiseAt # "get" /\ existing.status = "ok"
        status_code == IF raiseAt # "none" \/ existing.status # "ok" THEN 500
                       ELSE IF existing.data = None THEN 404
                       ELSE IF cosmos_deleted \/ blob_deleted THEN 200
                       ELSE 500
    IN  /\ api.pc = "idle"
        /\ api' = [pc |-> "done", op |-> "delete", id |-> record_id,
                   status_code |-> status_code, pre |-> Cur, raiseAt |-> raiseAt]
        /\ Store(IF reached THEN delete_documents(Cur, record_id, raiseAt) ELSE Cur)
        /\ origin' = IF reached THEN [origin EXCEPT ![record_id] = None] ELSE origin
        /\ ops' = ops + 1
        /\ UNCHANGED <<now, arch, arch2, stats, upd, rest, get, issued>>

\* PUT /billing/{id}, the whole handler with its response: the existence
\* check, cosmos_client.update_billing_record, the second lookup and
\* BillingRecord(**updated_record).
UpdateRequest(record_id, updates, raiseAt) ==
    LET existing == GetRecord(record_id)
        reached == raiseAt # "get" /\ existing.status = "ok"
        read == UpdStep(UpdStart(record_id, updates), raiseAt = "read", Cur)
        out == UpdStep(read.proc, raiseAt = "replace", read.S)
        S2 == IF reached THEN out.S ELSE Cur
        updated_record == GetRecordIn(S2, record_id)
        status_code == IF raiseAt = "get" \/ existing.status # "ok" THEN 500
                       ELSE IF existing.data = None THEN 404
                       ELSE IF out.proc.raised \/ ~out.proc.result THEN 500
                       ELSE IF raiseAt = "reget" \/ updated_record.status # "ok" THEN 500
                       ELSE IF fromisoformat(updated_record.data.created_at).raised THEN 500
                       ELSE 200
    IN  /\ api.pc = "idle"
        /\ api' = [pc |-> "done", op |-> "update", id |-> record_id,
                   status_code |-> status_code, pre |-> Cur, raiseAt |-> raiseAt]
        /\ Store(S2)
        /\ ops' = ops + 1
        /\ UNCHANGED <<now, arch, arch2, stats, upd, rest, get, origin, issued>>

\* The client takes the response.
ApiReturn ==
    /\ api.pc = "done"
    /\ api' = ApiIdle
    /\ UNCHANGED <<now, primary, index, blobs, arch, arch2, stats, upd, rest, get, origin, issued, ops>>

DeleteReq ==
    /\ CanStart
    /\ \E i \in Ids, raiseAt \in {"none", "get", "cosmos", "blob"} : DeleteRequest(i, raiseAt)

UpdateReq ==
    /\ CanStart
    /\ \E i \in Ids, updates \in Updates, raiseAt \in {"none", "get", "read", "replace", "reget"} :
          UpdateRequest(i, updates, raiseAt)

\* Requests one at a time, each answered before the next operation starts.
NextApi ==
    \/ api.pc = "idle" /\ Archive
    \/ api.pc = "idle" /\ Restore
    \/ api.pc = "idle" /\ Return
    \/ DeleteReq
    \/ UpdateReq
    \/ ApiReturn

SpecApi == Init /\ [][NextApi]_vars

\* ------------------------------------------------------------- properties
\* The record is in the cold tier only: blob and index entry, no primary copy.
Migrated(S, i) ==
    /\ S.primary[i] = None
    /\ S.blobs[BlobName(i)] # None
    /\ S.index[i] # None

\* The ids the last archive run selected.
Selected == {arch.records[p].id : p \in DOMAIN arch.records}

\* The primary-tier records older than the cutoff when the last run started.
OldAtStart ==
    {i \in Ids : arch.pre.primary[i] # None
                 /\ arch.pre.primary[i].created_at < now - ARCHIVAL_DAYS_THRESHOLD}

\* C1: a restore_record(id) of a migrated record that returns True is followed
\* by a get_billing_record(id) that returns the data it returned before the
\* migration, and neither the index entry nor the cold blob of id remains.
C1_RestoreReversibility ==
    (rest.pc = "done" /\ rest.result /\ Migrated(rest.pre, rest.id) /\ rest.origin # None)
    => /\ GetRecord(rest.id).status = "ok"
       /\ GetRecord(rest.id).data = rest.origin
       /\ index[rest.id] = None
       /\ blobs[BlobName(rest.id)] = None

\* C2: a record that get_billing_record finds before restore_record(id) is
\* still found after restore_record returned, and when a store call after the
\* primary-tier insert raised, the record is in the primary tier.
C2_RestoreNeverLoses ==
    (rest.pc = "done" /\ GetRecordIn(rest.pre, rest.id).status = "ok")
    => /\ GetRecord(rest.id).status = "ok"
       /\ rest.raisedAt \in {"r_blobdel", "r_idxdel"} => primary[rest.id] # None

\* C3: after an archive run that returns success, every record that was in
\* the primary tier and older than the cutoff when the run started is either
\* gone from the primary tier with a cold blob and an index entry, or still in
\* the primary tier, whatever store calls raised.
C3_MigrationCompleteness ==
    (arch.pc = "done" /\ arch.success)
    => \A i \in OldAtStart : Migrated(Cur, i) \/ primary[i] # None

C3_Witness ==
    /\ arch.pc = "done" /\ arch.success
    /\ \E i, j \in OldAtStart : /\ i \in arch.failed /\ primary[i] # None
                                /\ j \in arch.migrated /\ Migrated(Cur, j)

\* C4: when the migration of exactly one selected record fails at a sub-step,
\* the run still returns success, every other selected record, of the same
\* batch and of later batches, is migrated, and archived_count counts exactly
\* those others.
C4_BatchIsolation ==
    (arch.pc = "done" /\ Cardinality(arch.failed) = 1)
    => /\ arch.success
       /\ \A i \in Selected \ arch.failed : Migrated(Cur, i)
       /\ arch.archived_count = Len(arch.records) - 1

C4_Witness ==
    /\ arch.pc = "done" /\ Cardinality(arch.failed) = 1
    /\ Len(arch.records) > BATCH_SIZE
    /\ arch.records[1].id \in arch.failed
    /\ arch.archived_count = Len(arch.records) - 1

\* C5: get_billing_record consults the primary tier, then the index and the
\* blob at the indexed path, then the blob at the canonical name, in that
\* order; the first lookup that yields a record gives the result and no later
\* lookup is made; a primary copy wins over a different cold copy.
C5_ResolutionOrder ==
    (get.pc = "done" /\ get.status # "error")
    => LET i == get.id
           indexed == IF index[i] = None THEN None
                      ELSE IF index[i].blob_path \in DOMAIN blobs THEN blobs[index[i].blob_path]
                      ELSE None
       IN  IF primary[i] # None
           THEN get.status = "ok" /\ get.data = primary[i] /\ get.calls = <<"primary">>
           ELSE IF indexed # None
           THEN get.status = "ok" /\ get.data = indexed
                /\ get.calls = <<"primary", "index", "path">>
           ELSE IF blobs[BlobName(i)] # None
           THEN get.status = "ok" /\ get.data = blobs[BlobName(i)]
                /\ get.calls = IF index[i] = None THEN <<"primary", "index", "canon">>
                               ELSE <<"primary", "index", "path", "canon">>
           ELSE get.status = "not_found"

C5_Witness ==
    /\ get.pc = "done" /\ get.status = "ok"
    /\ primary[get.id] # None
    /\ Migrated([Cur EXCEPT !.primary[get.id] = None], get.id)
    /\ blobs[BlobName(get.id)] # primary[get.id]
    /\ get.data = primary[get.id]

\* C6: when id has no primary copy and no index entry but a blob at its
\* canonical name, get_billing_record(id) returns that blob's record.
C6_FallbackCoverage ==
    (/\ get.pc = "done" /\ get.status # "error"
     /\ primary[get.id] = None /\ index[get.id] = None /\ blobs[BlobName(get.id)] # None)
    => get.status = "ok" /\ get.data = blobs[BlobName(get.id)]

C6_Witness ==
    /\ get.pc = "done" /\ get.status = "ok"
    /\ primary[get.id] = None /\ index[get.id] = None /\ blobs[BlobName(get.id)] # None
    /\ get.calls = <<"primary", "index", "canon">>

\* C7: in every quiescent state reached by failure-free runs of create,
\* archive_old_records and restore_record, no id has both a primary copy and
\* a cold blob with an index entry.
C7_ExactlyOneLocation ==
    Quiescent => \A i \in Ids : ~(primary[i] # None /\ blobs[BlobName(i)] # None /\ index[i] # None)

C9_ArchiveRoundTrip ==
    (arch.pc = "done" /\ arch.success /\ arch.raised = 0)
    => /\ arch.archived_count = Cardinality(arch.migrated)
       /\ \A i \in OldAtStart :
            arch.pre.index[i] = None
            => /\ i \in arch.migrated
               /\ primary[i] = None
               /\ blobs[BlobName(i)] = arch.pre.primary[i]
               /\ index[i] # None /\ index[i].blob_path = BlobName(i)
               /\ GetRecord(i).status = "ok"
               /\ GetRecord(i).data = GetRecordIn(arch.pre, i).data
               /\ GetRecord(i).calls = <<"primary", "index", "path">>

C9_Witness ==
    /\ arch.pc = "done" /\ arch.success /\ arch.raised = 0
    /\ arch.archived_count > BATCH_SIZE
    /\ \E i \in arch.migrated : GetRecord(i).data.extra

\* C10: archive_old_records selects exactly the primary-tier records with
\* created_at < now - threshold; a record with created_at >= the cutoff stays
\* unchanged in the primary tier, the run writes no blob and no index entry
\* for it, and get_billing_record finds it at the primary-tier lookup.
C10_SelectionBoundary ==
    (arch.pc = "done" /\ arch.success)
    => /\ Selected = OldAtStart
       /\ \A p \in DOMAIN arch.records : arch.records[p] = arch.pre.primary[arch.records[p].id]
       /\ \A i \in Ids \ OldAtStart :
            arch.pre.primary[i] # None
            => /\ primary[i] = arch.pre.primary[i]
               /\ blobs[BlobName(i)] = arch.pre.blobs[BlobName(i)]
               /\ index[i] = arch.pre.index[i]
               /\ GetRecord(i).calls = <<"primary">>

C10_Witness ==
    /\ arch.pc = "done" /\ arch.success /\ arch.migrated # {}
    /\ \E i \in Ids : /\ primary[i] # None
                      /\ primary[i].created_at = now - ARCHIVAL_DAYS_THRESHOLD
                      /\ blobs[BlobName(i)] = None /\ index[i] = None

\* C12: when the selection query of archive_old_records raises, the run
\* returns success=False with archived_count=0 and the failure message, and
\* the primary store, the cold store and the index are as they were when the
\* run started.
C12_QueryFailure ==
    (arch.pc = "done" /\ arch.records = <<>> /\ arch.raised = 1)
    => /\ ~arch.success
       /\ arch.archived_count = 0
       /\ arch.message = "Archival process failed"
       /\ Cur = arch.pre

C12_Witness ==
    /\ arch.pc = "done" /\ arch.records = <<>> /\ arch.raised = 1
    /\ ~arch.success
    /\ get_records_to_archive(Cur, now - ARCHIVAL_DAYS_THRESHOLD) # {}
    /\ \E i \in Ids : Migrated(Cur, i)

\* C14: restore_record(id) on an id that has no index entry returns False and
\* leaves the primary store, the cold store and the index unchanged.
C14_RestoreWithoutIndex ==
    (rest.pc = "done" /\ rest.pre.index[rest.id] = None)
    => /\ ~rest.result
       /\ Cur = rest.pre

C14_Witness ==
    /\ rest.pc = "done" /\ rest.pre.index[rest.id] = None
    /\ rest.raisedAt = "none" /\ ~rest.result
    /\ rest.pre.blobs[BlobName(rest.id)] # None

\* C15: the index entry of id is gone after a restore_record(id) that returns
\* True and after an API delete of id in which no store call raises.
C15_IndexLifecycle ==
    [][/\ (rest'.pc = "done" /\ rest'.result) => index'[rest'.id] = None
       /\ \A i \in Ids : (Idle /\ DeleteBillingRecord(i, "none")) => index'[i] = None]_vars

\* C16: for a record older than the cutoff that an archive run migrated, a
\* restore_record(id) that returns True with no store failure leaves a state
\* in which get_billing_record(id) succeeds and from which a failure-free
\* archive run migrates the record again and counts it, with
\* get_billing_record(id) succeeding after that run too.
C16_LifecycleRepeatable ==
    (/\ rest.pc = "done" /\ rest.result /\ rest.raisedAt = "none"
     /\ Migrated(rest.pre, rest.id)
     /\ rest.pre.blobs[BlobName(rest.id)].created_at < now - ARCHIVAL_DAYS_THRESHOLD)
    => /\ GetRecordIn(rest.pre, rest.id).status = "ok"
       /\ GetRecord(rest.id).status = "ok"
       /\ \A records_to_archive \in
              Orders(get_records_to_archive(Cur, now - ARCHIVAL_DAYS_THRESHOLD)) :
            LET out == ArchRun(ArchStart(Cur, now, FALSE, records_to_archive), Cur,
                               [p \in DOMAIN records_to_archive |-> "none"])
            IN  /\ Migrated(out.S, rest.id)
                /\ rest.id \in out.proc.migrated
                /\ GetRecordIn(out.S, rest.id).status = "ok"

\* C17: an archive run in which no store call raises migrates and counts every
\* record that was older than the cutoff and live in the primary tier with a
\* stale cold blob or a stale index entry of the same id when the run started.
C17_Reconciliation ==
    (arch.pc = "done" /\ arch.success /\ arch.raised = 0)
    => \A i \in OldAtStart :
         (arch.pre.blobs[BlobName(i)] # None \/ arch.pre.index[i] # None)
         => /\ Migrated(Cur, i)
            /\ i \in arch.migrated
            /\ arch.archived_count >= 1

\* The lookup that the store call at a position of get_billing_record makes.
LookupOf(pc) ==
    CASE pc = "g_primary" -> "primary"
      [] pc = "g_index"   -> "index"
      [] pc = "g_path"    -> "path"
      [] pc = "g_canon"   -> "canon"

\* C20: get_billing_record(id) returns not-found only after the primary
\* lookup, the index lookup (with the indexed blob when an entry is found) and
\* the canonical-name lookup all reported the record absent; and a store call
\* on its way that raises makes the call end in an error, not in not-found.
C20_NotFoundOnlyAfterAllLookups ==
    /\ (get.pc = "done" /\ get.status = "not_found")
       => /\ get.calls \in {<<"primary", "index", "canon">>,
                            <<"primary", "index", "path", "canon">>}
          /\ primary[get.id] = None
          /\ index[get.id] # None
             => download_billing_record_by_path(Cur, index[get.id].blob_path) = None
          /\ blobs[BlobName(get.id)] = None
    /\ \A i \in Ids, raiseAt \in {"g_primary", "g_index", "g_path", "g_canon"} :
         LET made == GetRecord(i).calls
             g == GetRun(GetStart(i), Cur, raiseAt)
         IN  IF \E k \in DOMAIN made : made[k] = LookupOf(raiseAt)
             THEN g.status = "error"
             ELSE g = GetRecord(i)

C20_Witness ==
    /\ get.pc = "done" /\ get.status = "not_found"
    /\ get.calls = <<"primary", "index", "path", "canon">>
    /\ index[get.id] # None

\* C11: the archived_count of a run that returns success=True is the number
\* of selected records whose blob was uploaded, whose index entry was created
\* and which the run itself deleted from the primary tier; a primary delete
\* that finds the record already gone does not count.
C11_CountIsCompletedMigrations ==
    (arch.pc = "done" /\ arch.success)
        => /\ arch.archived_count = Cardinality(arch.deleted)
           /\ arch.deleted = arch.migrated

\* C13: archive_old_records always terminates with a structured result (a
\* success flag, an archived_count, a message) and never propagates an error
\* to its caller, whatever store calls raise in the selection query or in the
\* sub-steps of the records.
C13_AlwaysStructuredResult ==
    /\ [](arch.pc \in {"idle", "a_upload", "a_index", "a_delete", "done"})
    /\ [](arch.pc = "done" =>
            /\ arch.success \in BOOLEAN
            /\ arch.archived_count \in 0..Len(arch.records)
            /\ arch.message \in IF arch.success
                                THEN {"No records found for archival", "Successfully archived"}
                                ELSE {"Archival process failed"}
            /\ ~arch.success => arch.archived_count = 0)
    /\ (arch.pc \notin {"idle", "done"}) ~> (arch.pc = "done")

\* A run has returned after a sub-step raised for every selected record.
C13_Witness ==
    /\ arch.pc = "done"
    /\ arch.success
    /\ Len(arch.records) = InitialRecords
    /\ arch.raised = Len(arch.records)
    /\ arch.archived_count = 0

\* C18: a get_billing_record(id) whose store calls interleave in any way with
\* those of an archive run that migrates that record, no store call raising,
\* returns the record and never reports it as not found.
C18_ReadDuringMigration ==
    (get.pc = "done" /\ arch.pc # "idle" /\ get.id \in Selected)
        => /\ get.status = "ok"
           /\ get.data = arch.pre.primary[get.id]

\* A lookup has returned the record from the cold tier while the run that
\* migrated it is still at work on its other records.
C18_Witness ==
    /\ get.pc = "done"
    /\ InProgress(arch)
    /\ get.id \in arch.migrated
    /\ get.status = "ok"
    /\ get.calls = <<"primary", "index", "path">>
    /\ get.data = arch.pre.primary[get.id]

\* C19: a record that is archived (blob and index entry) and older than the
\* cutoff, on which one restore_record(id) and one archive run work at the
\* same time with no store call raising and no other writer, is still
\* returned by get_billing_record(id) once both have finished.
C19_NoLossUnderConcurrency ==
    \A i \in Ids :
        (/\ rest.pc = "done" /\ rest.id = i
         /\ arch.pc = "done"
         /\ ops = 1
         /\ Migrated(rest.pre, i) /\ Migrated(arch.pre, i)
         /\ rest.pre.blobs[BlobName(i)].created_at < arch.cutoff)
            => GetRecord(i).status = "ok"

\* C21: get_archival_stats with no read raising and no mutation under way
\* reports the number of records in the primary tier, the number of index
\* entries, the number of blobs in the cold tier and the configured
\* threshold.
C21_StatsAreCounts ==
    (stats.pc = "done" /\ stats.raisedAt = "none")
        => /\ stats.payload.cosmos_db_records = Cardinality({i \in Ids : stats.pre.primary[i] # None})
           /\ stats.payload.archived_records = Cardinality({i \in Ids : stats.pre.index[i] # None})
           /\ stats.payload.blob_storage_files = Cardinality({b \in BlobNames : stats.pre.blobs[b] # None})
           /\ stats.payload.archival_threshold_days = ARCHIVAL_DAYS_THRESHOLD

\* C22: when a read of get_archival_stats raises, the payload has the error
\* field and no count field; no payload mixes counts with missing or
\* defaulted ones; and the call leaves the stores as they were.
C22_StatsErrorPayload ==
    stats.pc = "done"
        => /\ stats.raisedAt # "none" => DOMAIN stats.payload = {"error"}
           /\ DOMAIN stats.payload \in
                 {{"error"}, {"cosmos_db_records", "archived_records",
                              "blob_storage_files", "archival_threshold_days"}}
           /\ "error" \notin DOMAIN stats.payload => stats.raisedAt = "none"
           /\ Cur = stats.pre

\* The listing of the blobs has raised after the two counts were read, on
\* stores that hold records in both tiers.
C22_Witness ==
    /\ stats.pc = "done"
    /\ stats.raisedAt = "blobs"
    /\ stats.payload = [error |-> "raised"]
    /\ \E i \in Ids : primary[i] # None
    /\ \E i \in Ids : index[i] # None /\ blobs[BlobName(i)] # None

\* C23: the migration of a record uploads the blob, then creates the index
\* entry, then deletes the primary copy; a sub-step that fails skips the rest
\* for that record and undoes nothing: after a failed index creation the
\* uploaded blob stays and the primary copy is untouched, after a failed
\* primary delete the blob and the index entry stay and the primary copy is
\* untouched, and in both cases the record is not counted.
C23_SubStepOrder ==
    [][InProgress(arch) =>
        LET id == arch.records[arch.p].id
            skipped == id \in arch'.failed
            notCounted == /\ id \notin arch'.migrated
                          /\ arch'.archived_count + arch'.batch_archived
                                = arch.archived_count + arch.batch_archived
        IN  /\ arch.pc = "a_upload" => index' = index /\ primary' = primary
            /\ arch.pc = "a_index" => blobs' = blobs /\ primary' = primary
            /\ arch.pc = "a_delete" => blobs' = blobs /\ index' = index
            /\ (arch'.pc = "a_index" /\ arch.pc # "a_index")
                  => arch.pc = "a_upload" /\ blobs'[BlobName(id)] # None
            /\ (arch'.pc = "a_delete" /\ arch.pc # "a_delete")
                  => arch.pc = "a_index" /\ index[id] = None /\ index'[id] # None
            /\ (primary[id] # None /\ primary'[id] = None) => arch.pc = "a_delete"
            /\ (arch.pc = "a_index" /\ skipped)
                  => /\ UNCHANGED <<primary, index, blobs>>
                     /\ blobs[BlobName(id)] # None
                     /\ primary[id] = arch.records[arch.p]
                     /\ notCounted
            /\ (arch.pc = "a_delete" /\ skipped)
                  => /\ UNCHANGED <<primary, index, blobs>>
                     /\ blobs[BlobName(id)] # None
                     /\ index[id] # None
                     /\ primary[id] = arch.records[arch.p]
                     /\ notCounted]_vars

\* A run has returned in which the index creation raised for one record and
\* the primary delete for another.
C23_Witness ==
    /\ arch.pc = "done"
    /\ \E i, j \in arch.failed :
          /\ arch.pre.blobs[BlobName(i)] = None /\ blobs[BlobName(i)] # None
          /\ index[i] = None /\ primary[i] # None
          /\ arch.pre.index[j] = None /\ index[j] # None
          /\ blobs[BlobName(j)] # None /\ primary[j] # None
    /\ arch.archived_count = Cardinality(Selected) - 2

\* C24: in every state between two store calls of an archive run, every
\* selected record is in the primary tier or has a blob at its canonical
\* path, and the primary copy of a record is deleted only after its blob was
\* uploaded and its index entry created in that run.
C24_InterruptionSafety ==
    /\ [](arch.pc # "idle" =>
            \A i \in Selected : primary[i] # None \/ blobs[BlobName(i)] # None)
    /\ [][\A i \in Ids : (primary[i] # None /\ primary'[i] = None)
            => /\ arch.pc = "a_delete"
               /\ arch.records[arch.p].id = i
               /\ i \notin arch.failed
               /\ arch.blob_path = BlobName(i)
               /\ blobs[BlobName(i)] # None
               /\ arch.pre.index[i] = None /\ index[i] # None]_vars

\* A run is between two store calls with one selected record migrated, one
\* uploaded and indexed but still in the primary tier, and one not yet
\* reached.
C24_Witness ==
    /\ arch.pc = "a_delete"
    /\ \E i \in Selected : primary[i] = None /\ blobs[BlobName(i)] # None
    /\ \E i \in Selected : primary[i] # None /\ blobs[BlobName(i)] # None /\ index[i] # None
    /\ \E i \in Selected : primary[i] # None /\ blobs[BlobName(i)] = None

\* C25: restore_record(id) on an id whose index entry exists while the blob at
\* the indexed path is absent returns False and leaves the primary store, the
\* cold store and the index as they were; the stale index entry remains.
C25_RestoreStaleIndex ==
    (/\ rest.pc = "done"
     /\ rest.pre.index[rest.id] # None
     /\ download_billing_record_by_path(rest.pre, rest.pre.index[rest.id].blob_path) = None)
        => /\ ~rest.result
           /\ Cur = rest.pre
           /\ index[rest.id] = rest.pre.index[rest.id]

\* A restore has returned, no store call raising, for an id whose blob an
\* earlier operation removed and whose index entry was left behind.
C25_Witness ==
    /\ rest.pc = "done"
    /\ rest.raisedAt = "none"
    /\ ~rest.result
    /\ rest.archive_index # None
    /\ index[rest.id] # None
    /\ blobs[BlobName(rest.id)] = None

\* C26: a selected record whose created_at cannot be parsed as a timestamp is
\* migrated all the same: its index entry is created with original_created_at
\* set to the current time, its primary copy is deleted and it is counted.
C26_UnparsableCreatedAt ==
    (arch.pc = "done" /\ arch.success /\ arch.raised = 0)
        => \A p \in DOMAIN arch.records :
              LET record == arch.records[p]
              IN  (/\ record.id # NoId
                   /\ fromisoformat(record.created_at).raised
                   /\ arch.pre.index[record.id] = None)
                     => /\ index[record.id] # None
                        /\ index[record.id].original_created_at = now
                        /\ primary[record.id] = None
                        /\ record.id \in arch.migrated

\* C27: a selected record with a missing or empty id is skipped: no blob is
\* uploaded, no index entry created and no primary delete issued for it, it
\* is not counted, and the run goes on with the next record of the batch.
C27_MissingIdSkipped ==
    [][(InProgress(arch) /\ arch.records[arch.p].id = NoId)
        => /\ UNCHANGED <<primary, index, blobs>>
           /\ arch'.migrated = arch.migrated
           /\ arch'.deleted = arch.deleted
           /\ arch'.archived_count + arch'.batch_archived
                 = arch.archived_count + arch.batch_archived
           /\ IF arch.p < Len(arch.records)
              THEN arch'.pc = "a_upload" /\ arch'.p = arch.p + 1
              ELSE arch'.pc = "done" /\ arch'.success]_vars

\* A run has returned that met the document without an id first in its first
\* batch and migrated every record after it.
C27_Witness ==
    /\ arch.pc = "done"
    /\ arch.success
    /\ Len(arch.records) = InitialRecords + 1
    /\ arch.records[1].id = NoId
    /\ arch.archived_count = InitialRecords
    /\ arch.migrated = Selected \ {NoId}
    /\ Cardinality({b \in BlobNames : blobs[b] # None}) = InitialRecords
    /\ Cardinality({i \in Ids : index[i] # None}) = InitialRecords

\* C28: batching does not change the outcome.  For the records a run
\* selected, in the order it selected them, for every pattern of sub-steps
\* that raise and every batch size from 1 on, each record is processed once
\* and the stores and the archived_count at the return are those of the run
\* that takes all the records as a single batch; the run itself, with the
\* configured batch size, ended as the single-batch run does.
C28_BatchingInvariance ==
    (arch.pc = "done" /\ arch.records # <<>>)
        => LET n == Len(arch.records)
               start(b) == [ArchStart(arch.pre, now, FALSE, arch.records)
                               EXCEPT !.batch_size = b]
               none == [p \in 1..n |-> "none"]
           IN  /\ \A raiseAt \in [1..n -> {"none", "a_upload", "a_index", "a_delete"}] :
                    \A b \in 1..(n + 1) :
                       LET single == ArchRun(start(n), arch.pre, raiseAt)
                           out == ArchRun(start(b), arch.pre, raiseAt)
                       IN  /\ out.S = single.S
                           /\ out.proc.archived_count = single.proc.archived_count
                           /\ out.proc.archived_count = Cardinality(out.proc.migrated)
                           /\ out.proc.migrated \cup out.proc.failed = Selected
                           /\ out.proc.migrated \cap out.proc.failed = {}
                           /\ out.proc.p = n
               /\ Cur = ArchRun(start(n), arch.pre, none).S
               /\ arch.archived_count = ArchRun(start(n), arch.pre, none).proc.archived_count

\* A run has returned that took its records in a full batch and a partial
\* one and migrated them all.
C28_Witness ==
    /\ arch.pc = "done"
    /\ Len(arch.records) > arch.batch_size
    /\ Len(arch.records) % arch.batch_size # 0
    /\ arch.archived_count = Len(arch.records)
    /\ \A i \in Selected : Migrated(Cur, i)

\* C29: when get_billing_record(id) finds the index entry of id and the blob
\* at the indexed path is absent, the lookup does not end there: it goes on to
\* the blob at the canonical path and reports not-found only if that one is
\* absent too.
C29_StaleIndexFallsThrough ==
    (/\ get.pc = "done" /\ get.status # "error"
     /\ get.archive_index # None
     /\ download_billing_record_by_path(Cur, get.archive_index.blob_path) = None)
        => /\ get.calls = <<"primary", "index", "path", "canon">>
           /\ get.status = "not_found" <=> download_billing_record(Cur, get.id) = None
           /\ get.status = "ok" => get.data = download_billing_record(Cur, get.id)

\* A lookup has returned not-found after it found the index entry, missed
\* the indexed blob and missed the canonical blob.
C29_Witness ==
    /\ get.pc = "done"
    /\ get.archive_index # None
    /\ get.archive_index = index[get.id]
    /\ blobs[get.archive_index.blob_path] = None
    /\ get.calls[Len(get.calls)] = "canon"
    /\ get.status = "not_found"

\* C30: two archive runs at work on the same selected records at the same
\* time, no store call failing but the index store's rejection of an entry
\* whose id exists, count each record in at most one of them: the two
\* archived_count values add up to the number of records migrated, and each
\* such record ends absent from the primary tier with one blob and one index
\* entry.
C30_TwoRunsCountOnce ==
    (/\ arch.pc = "done" /\ arch2.pc = "done"
     /\ arch.records # <<>>
     /\ {arch.records[p] : p \in DOMAIN arch.records}
           = {arch2.records[p] : p \in DOMAIN arch2.records})
        => /\ arch.migrated \cap arch2.migrated = {}
           /\ arch.archived_count + arch2.archived_count
                 = Cardinality(arch.migrated \cup arch2.migrated)
           /\ arch.archived_count = Cardinality(arch.migrated)
           /\ arch2.archived_count = Cardinality(arch2.migrated)
           /\ \A i \in arch.migrated \cup arch2.migrated :
                 /\ Migrated(Cur, i)
                 /\ index[i].blob_path = BlobName(i)
                 /\ blobs[BlobName(i)] = arch.pre.primary[i]
           /\ arch.migrated \cup arch2.migrated = Selected

\* Both runs have returned, each after it migrated some of the records both
\* had selected and was rejected by the index store on the others.
C30_Witness ==
    /\ arch.pc = "done" /\ arch2.pc = "done"
    /\ Len(arch.records) = InitialRecords /\ Len(arch2.records) = InitialRecords
    /\ arch.archived_count >= 1 /\ arch2.archived_count >= 1
    /\ arch.archived_count + arch2.archived_count = InitialRecords
    /\ arch.failed = arch2.migrated /\ arch2.failed = arch.migrated

\* C31: an update_billing_record(id, updates) that returns True while an
\* archive run that selected the record is in progress is not lost: once the
\* run has finished, get_billing_record(id) returns the record with the
\* updates applied.
C31_NoLostUpdate ==
    (/\ arch.pc = "done"
     /\ upd.pc = "done" /\ upd.result /\ upd.during)
        => /\ GetRecord(upd.id).status = "ok"
           /\ \A f \in DOMAIN upd.updates : GetRecord(upd.id).data[f] = upd.updates[f]

\* C32: in every reachable state the blob_path of every index entry is
\* '{id}.json' for the entry's own id, so the blob restore_record downloads
\* through the indexed path is the blob it deletes by record id.
C32_CanonicalPath ==
    /\ \A i \in Ids : index[i] # None
          => index[i].id = i /\ index[i].blob_path = BlobName(i)
    /\ (rest.pc # "idle" /\ rest.archive_index # None)
          => rest.archive_index.blob_path = BlobName(rest.id)
    /\ (rest.pc = "done" /\ rest.result)
          => /\ rest.pre.blobs[rest.archive_index.blob_path] # None
             /\ blobs[rest.archive_index.blob_path] = None
             /\ \A b \in BlobNames \ {rest.archive_index.blob_path} : blobs[b] = rest.pre.blobs[b]

\* A restore has returned True while the blobs and index entries of other
\* records are in place.
C32_Witness ==
    /\ rest.pc = "done" /\ rest.result
    /\ rest.pre.blobs[BlobName(rest.id)] # None
    /\ blobs[BlobName(rest.id)] = None
    /\ Cardinality({i \in Ids : index[i] # None}) = InitialRecords
    /\ Cardinality({b \in BlobNames : blobs[b] # None}) = InitialRecords - 1

\* C33: get_billing_record is read-only: whatever the id and the outcome (a
\* hit at any lookup, not-found, or the error of a store call), the primary
\* store, the cold store and the archive index are as before the call.
C33_GetIsReadOnly ==
    [][(get' # get /\ get'.pc = "done")
          => /\ UNCHANGED <<primary, index, blobs>>
             /\ get'.status \in {"ok", "not_found", "error"}]_vars

\* A lookup has returned a record from the cold tier through the index, and
\* the blob and the index entry are still there.
C33_Witness ==
    /\ get.pc = "done"
    /\ get.status = "ok"
    /\ get.calls = <<"primary", "index", "path">>
    /\ primary[get.id] = None
    /\ index[get.id] = get.archive_index
    /\ blobs[BlobName(get.id)] = get.data

\* C34: DELETE /billing/{id} purges a record from whichever tier holds it: a
\* delete that reports success was given an id held in the primary tier, in
\* the cold tier or in both, leaves no primary copy and no blob at the
\* canonical path, and a get_billing_record(id) that follows fails with
\* not-found.
C34_DeletePurges ==
    (api.pc = "done" /\ api.op = "delete" /\ api.status_code = 200)
        => /\ api.pre.primary[api.id] # None \/ api.pre.blobs[BlobName(api.id)] # None
           /\ primary[api.id] = None
           /\ blobs[BlobName(api.id)] = None
           /\ GetRecord(api.id).status = "not_found"
           /\ \A i \in Ids \ {api.id} :
                 primary[i] = api.pre.primary[i] /\ blobs[BlobName(i)] = api.pre.blobs[BlobName(i)]

\* A delete has reported success for a record that an interrupted migration
\* had left in both tiers.
C34_Witness ==
    /\ api.pc = "done" /\ api.op = "delete" /\ api.status_code = 200
    /\ api.pre.primary[api.id] # None
    /\ api.pre.blobs[BlobName(api.id)] # None
    /\ primary[api.id] = None
    /\ blobs[BlobName(api.id)] = None

\* C35: PUT and DELETE /billing/{id} with an id that is found in no tier
\* respond with 404 and not with 500, and change no store.
C35_NotFoundIs404 ==
    (/\ api.pc = "done"
     /\ api.raiseAt = "none"
     /\ GetRecordIn(api.pre, api.id).status = "not_found")
        => /\ api.status_code = 404
           /\ Cur = api.pre

====
